---- MODULE Spec2Model ----
(***************************************************************************)
(* Model of src/snake.js: the snake game's state, its input handlers       *)
(* (handleKeyDown, the touchend swipe handler), setDirection, togglePause, *)
(* restartGame/initGame, placeFood, update and the requestAnimationFrame   *)
(* callback gameLoop.                                                      *)
(*                                                                         *)
(* Time.  The code reads two clocks: performance.now() and the timestamp   *)
(* the browser hands to an animation-frame callback.  Only differences of  *)
(* clock readings reach the game state, so clock readings are kept         *)
(* relative to a reference instant: the instant of the latest reading that *)
(* a handler stored (performance.now() in initGame and in a resuming       *)
(* togglePause, the frame timestamp in a gameLoop call that advances the   *)
(* game).  Such a handler takes its clock reading relative to the old      *)
(* reference as input and re-bases what it stores, Rebase(t, c) being the  *)
(* stored reading t relative to the new reference c.  lastTime is the      *)
(* code's variable; frameTime is the timestamp of the latest frame, kept   *)
(* because the browser's frame timestamps never decrease and are never     *)
(* later than performance.now().  A handler that stores no clock reading   *)
(* (setDirection, pausing, a frame that finds the game paused or stopped)  *)
(* has the same effect whenever it runs and leaves the reference alone.    *)
(* One time unit is half a simulation step (step = 1/SPEED seconds);       *)
(* floating-point rounding is not modelled.                                *)
(*                                                                         *)
(* placeFood.  In Spec and SpecCalls a placeFood call that returns is part *)
(* of the step of the update call around it (FreeCells gives the cells it  *)
(* can return), and hung records a call that cannot return.  SpecFood      *)
(* follows the do-while loop pass by pass: placing holds while a placeFood *)
(* call is executing.                                                      *)
(*                                                                         *)
(* restartedFrom is a history variable; it is not part of the program.     *)
(***************************************************************************)
EXTENDS Integers, Sequences, FiniteSets, TLC

VARIABLES snake, dir, nextDir, food, score, running, paused, gameOver,
          accumulator, lastTime, frameTime, pending, hung, placing,
          restartedFrom

game == <<snake, dir, nextDir, food, score, running, paused, gameOver, hung,
          placing>>
clock == <<accumulator, lastTime, frameTime, pending>>
\* the program's state
prog == <<game, clock>>
\* restartedFrom is a history variable: the mode the game was in when the
\* latest restartGame call came, "none" once a handler has changed the state
\* since (and before any restartGame call)
vars == <<snake, dir, nextDir, food, score, running, paused, gameOver,
          accumulator, lastTime, frameTime, pending, hung, placing,
          restartedFrom>>

----------------------------------------------------------------------------
(* Bounds of the model *)

\* the snake is not grown past this length
MaxLen == 5
\* a clock reading is at most this far after the reference instant
MaxElapsed == 3
\* a frame's timestamp is at most this far behind performance.now()
MaxLag == 1
\* requestAnimationFrame callbacks outstanding at once
MaxPending == 2
\* the accumulator is not driven below -MaxDebt
MaxDebt == 1

----------------------------------------------------------------------------
(* Program constants *)

\* the canvas element of the page, in pixels: the smallest one whose grid
\* holds the initial snake and lets the snake turn
CanvasWidth == 120
CanvasHeight == 40

CELL == 20
COLS == CanvasWidth \div CELL
ROWS == CanvasHeight \div CELL

SPEED == 8
SwipeMinDist == 30
SwipeMaxMs == 1000

\* the time unit is half a simulation step
UnitsPerSecond == 2 * SPEED

\* step = 1 / SPEED seconds
step == UnitsPerSecond \div SPEED

Max(a, b) == IF a > b THEN a ELSE b

\* the clock reading t, relative to the new reference instant c
Rebase(t, c) == t - c

\* the latest frame's timestamp once the reference moves to c; how far it
\* lies back matters only up to MaxLag
RebaseFrame(t, c) == Max(Rebase(t, c), -MaxLag)

----------------------------------------------------------------------------
(* Values *)

Cell(cx, cy) == [x |-> cx, y |-> cy]
\* { x: NaN, y: NaN }: what head + dir is when dir has no numeric x and y
NaNCell == [nan |-> TRUE]
\* the result of spreading an object with no own enumerable properties
EmptyObject == [keys |-> {}]

IsVec(v) == DOMAIN v = {"x", "y"}

Grid == {Cell(cx, cy) : cx \in 0..(COLS - 1), cy \in 0..(ROWS - 1)}

Cells(s) == {s[i] : i \in 1..Len(s)}

\* const map = { up:..., down:..., left:..., right:... } in setDirection
map == [up |-> Cell(0, -1), down |-> Cell(0, 1),
        left |-> Cell(-1, 0), right |-> Cell(1, 0)]

\* property names every object literal inherits from Object.prototype (a sample)
InheritedKeys == {"constructor", "toString"}

\* map[action]: an own entry, an inherited member, or undefined
Lookup(action) ==
    IF action \in DOMAIN map THEN map[action]
    ELSE IF action \in InheritedKeys THEN [fn |-> action]
    ELSE [undefined |-> TRUE]

Truthy(v) == DOMAIN v # {"undefined"}

\* { ...nextDir }: the own enumerable properties of nextDir
Spread(v) == IF IsVec(v) THEN v ELSE EmptyObject

----------------------------------------------------------------------------
(* The game state as one value, so that update can be applied repeatedly
   inside one gameLoop call *)

State == [snake |-> snake, dir |-> dir, nextDir |-> nextDir, food |-> food,
          score |-> score, running |-> running, paused |-> paused,
          gameOver |-> gameOver, hung |-> hung]

\* head + dir, component-wise; NaN as soon as an operand is not a number
Plus(head, d) ==
    IF head # NaNCell /\ IsVec(d) THEN Cell(head.x + d.x, head.y + d.y)
    ELSE NaNCell

\* segment.x === newHead.x && segment.y === newHead.y (NaN equals nothing)
SameCell(a, b) == a # NaNCell /\ b # NaNCell /\ a = b

\* variant: the two lower bounds are not checked
OutOfGridNoLow(c) == c # NaNCell /\ (c.x >= COLS \/ c.y >= ROWS)

\* variant: the column bound is off by one
OutOfGridOffByOne(c) ==
    c # NaNCell /\ (c.x < 0 \/ c.x > COLS \/ c.y < 0 \/ c.y >= ROWS)

\* newHead.x < 0 || newHead.x >= COLS || newHead.y < 0 || newHead.y >= ROWS
OutOfGrid(c) ==
    c # NaNCell /\ (c.x < 0 \/ c.x >= COLS \/ c.y < 0 \/ c.y >= ROWS)

\* variant: the last segment, which the move is about to vacate, is skipped
HitsSelfButTail(sn, c) == \E i \in 1..(Len(sn) - 1) : SameCell(sn[i], c)

\* variant: no self-collision check
HitsSelfNever(sn, c) == FALSE

\* snake.some(segment => segment is newHead's cell)
HitsSelf(sn, c) == \E i \in 1..Len(sn) : SameCell(sn[i], c)

\* variant: only the head's cell counts as occupied
FreeCellsButHead(sn) == Grid \ {sn[1]}

\* placeFood: the cells the rejection sampling can return for snake sn; when
\* there is none the do-while loop never ends
FreeCells(sn) == Grid \ Cells(sn)

\* the snake positions of initGame
InitSnake ==
    << Cell((COLS \div 2) - 1, ROWS \div 2),
       Cell((COLS \div 2) - 2, ROWS \div 2),
       Cell((COLS \div 2) - 3, ROWS \div 2) >>

\* variant: running is not cleared
CrashKeepsRunning(g) == [g EXCEPT !.gameOver = TRUE]

\* gameOver = true; running = false; return
Crash(g) == [g EXCEPT !.gameOver = TRUE, !.running = FALSE]

\* variant: the tail is removed on every move, also when food is eaten
AdvanceAlwaysPop(g, newHead) ==
    LET grown == <<newHead>> \o g.snake
        moved == SubSeq(grown, 1, Len(grown) - 1) IN
    IF SameCell(newHead, g.food)
    THEN {[g EXCEPT !.snake = moved, !.score = @ + 1, !.food = f] :
             f \in FreeCells(grown)}
    ELSE {[g EXCEPT !.snake = moved]}

\* variant: the tail is never removed
AdvanceNeverPop(g, newHead) ==
    LET grown == <<newHead>> \o g.snake IN
    IF SameCell(newHead, g.food)
    THEN {[g EXCEPT !.snake = grown, !.score = @ + 1, !.food = f] :
             f \in FreeCells(grown)}
    ELSE {[g EXCEPT !.snake = grown]}

\* variant: eating does not count
AdvanceNoScore(g, newHead) ==
    LET grown == <<newHead>> \o g.snake IN
    IF SameCell(newHead, g.food)
    THEN {[g EXCEPT !.snake = grown, !.food = f] : f \in FreeCells(grown)}
    ELSE {[g EXCEPT !.snake = SubSeq(grown, 1, Len(grown) - 1)]}

\* snake.unshift(newHead), then the food check
Advance(g, newHead) ==
    LET grown == <<newHead>> \o g.snake IN
    IF SameCell(newHead, g.food)
    THEN LET g1 == [g EXCEPT !.snake = grown, !.score = @ + 1] IN
         IF FreeCells(grown) = {}
         THEN {[g1 EXCEPT !.hung = TRUE]}
         ELSE {[g1 EXCEPT !.food = f] : f \in FreeCells(grown)}
    ELSE {[g EXCEPT !.snake = SubSeq(grown, 1, Len(grown) - 1)]}

\* update(): the set of states one call can leave (placeFood is random)
update(g) ==
    IF ~g.running \/ g.paused \/ g.gameOver THEN {g}
    ELSE LET g1 == [g EXCEPT !.dir = Spread(g.nextDir)]
             newHead == Plus(g1.snake[1], g1.dir)
         IN  IF OutOfGrid(newHead) THEN {Crash(g1)}
             ELSE IF HitsSelf(g1.snake, newHead) THEN {Crash(g1)}
             ELSE Advance(g1, newHead)

\* update(g) gets as far as its placeFood call: the game goes on, the new
\* head is on the grid and off the snake, and it is the food cell
Eats(g) ==
    /\ g.running /\ ~g.paused /\ ~g.gameOver
    /\ LET newHead == Plus(g.snake[1], Spread(g.nextDir))
       IN  /\ ~OutOfGrid(newHead)
           /\ ~HitsSelf(g.snake, newHead)
           /\ SameCell(newHead, g.food)

\* the state in which update(g) calls placeFood: direction committed, head
\* prepended, score counted
AtPlaceFood(g) ==
    LET d == Spread(g.nextDir) IN
    [g EXCEPT !.dir = d, !.snake = <<Plus(g.snake[1], d)>> \o g.snake,
              !.score = @ + 1]

\* variant: the head's cell is left out of the occupied set
OccupiedButHead(sn, c) == \E i \in 2..Len(sn) : sn[i] = c

\* occupied.has(`${fx},${fy}`) for the set placeFood builds from snake sn
Occupied(sn, c) == \E i \in 1..Len(sn) : sn[i] = c

\* while (accumulator >= step) { update(); accumulator -= step; }
\* the states the loop can end in, each with the accumulator it leaves and
\* the number n of update calls that returned
RECURSIVE Drain(_, _)
Drain(g, acc) ==
    IF g.hung \/ acc < step THEN {[g |-> g, acc |-> acc, n |-> 0]}
    ELSE UNION {{[r EXCEPT !.n = @ + 1] : r \in Drain(g2, acc - step)} :
                   g2 \in update(g)}

----------------------------------------------------------------------------
(* Operations *)

\* window.requestAnimationFrame(gameLoop)
RequestFrame(n) == n < MaxPending /\ pending' = n + 1

\* variant: the score of the previous game is kept
initGameKeepsScore(now) ==
    /\ snake' = InitSnake
    /\ dir' = Cell(1, 0)
    /\ nextDir' = Cell(1, 0)
    /\ paused' = FALSE
    /\ gameOver' = FALSE
    /\ hung' = FALSE
    /\ food' \in FreeCells(InitSnake)
    /\ running' = TRUE
    /\ accumulator' = 0
    /\ lastTime' = Rebase(now, now)
    /\ frameTime' = RebaseFrame(frameTime, now)
    /\ RequestFrame(pending)
    /\ UNCHANGED <<score, placing>>

initGame(now) ==
    /\ snake' = InitSnake
    /\ dir' = Cell(1, 0)
    /\ nextDir' = Cell(1, 0)
    /\ score' = 0
    /\ paused' = FALSE
    /\ gameOver' = FALSE
    /\ IF FreeCells(InitSnake) = {}
       THEN /\ hung' = TRUE
            /\ UNCHANGED <<food, running, accumulator, lastTime, pending>>
            /\ UNCHANGED <<frameTime, placing>>
       ELSE /\ hung' = FALSE
            /\ food' \in FreeCells(InitSnake)
            /\ running' = TRUE
            /\ accumulator' = 0
            /\ lastTime' = Rebase(now, now)
            /\ frameTime' = RebaseFrame(frameTime, now)
            /\ RequestFrame(pending)
            /\ UNCHANGED placing

restartGame(now) == initGame(now)

\* variant: the gameOver guard is missing
togglePauseAlways(now) ==
    /\ paused' = ~paused
    /\ IF ~paused'
       THEN /\ lastTime' = Rebase(now, now)
            /\ frameTime' = RebaseFrame(frameTime, now)
            /\ RequestFrame(pending)
       ELSE UNCHANGED <<lastTime, frameTime, pending>>
    /\ UNCHANGED <<snake, dir, nextDir, food, score, running, gameOver,
                   accumulator, hung, placing>>

\* variant: resuming does not store performance.now(), so lastTime stays at
\* the reading it held before the pause
togglePauseStale(now) ==
    IF gameOver THEN UNCHANGED vars
    ELSE /\ paused' = ~paused
         /\ IF ~paused'
            THEN /\ lastTime' = Rebase(lastTime, now)
                 /\ frameTime' = RebaseFrame(frameTime, now)
                 /\ RequestFrame(pending)
            ELSE UNCHANGED <<lastTime, frameTime, pending>>
         /\ UNCHANGED <<snake, dir, nextDir, food, score, running, gameOver,
                        accumulator, hung, placing>>

\* now: performance.now()
togglePause(now) ==
    IF gameOver THEN UNCHANGED vars
    ELSE /\ paused' = ~paused
         /\ IF ~paused'
            THEN /\ lastTime' = Rebase(now, now)
                 /\ frameTime' = RebaseFrame(frameTime, now)
                 /\ RequestFrame(pending)
            ELSE UNCHANGED <<lastTime, frameTime, pending>>
         /\ UNCHANGED <<snake, dir, nextDir, food, score, running, gameOver,
                        accumulator, hung, placing>>

\* variant: the request is compared with the queued direction
OppositeOfQueued(nd, d) ==
    IsVec(nd) /\ IsVec(nextDir) /\ nd.x = -nextDir.x /\ nd.y = -nextDir.y

\* nd.x === -dir.x && nd.y === -dir.y
Opposite(nd, d) == IsVec(nd) /\ IsVec(d) /\ nd.x = -d.x /\ nd.y = -d.y

setDirection(action) ==
    IF ~Truthy(Lookup(action)) THEN UNCHANGED vars
    ELSE IF Opposite(Lookup(action), dir) THEN UNCHANGED vars
    ELSE /\ nextDir' = Lookup(action)
         /\ UNCHANGED <<snake, dir, food, score, running, paused, gameOver,
                        accumulator, lastTime, frameTime, pending, hung,
                        placing>>

\* the game action handleKeyDown derives from e.key, "" for none
KeyAction(k) ==
    IF k \in {"ArrowUp", "w", "W"} THEN "up"
    ELSE IF k \in {"ArrowDown", "s", "S"} THEN "down"
    ELSE IF k \in {"ArrowLeft", "a", "A"} THEN "left"
    ELSE IF k \in {"ArrowRight", "d", "D"} THEN "right"
    ELSE IF k \in {" ", "Spacebar"} THEN "pause"
    ELSE IF k = "Enter" THEN "restart"
    ELSE ""

handleKeyDown(k, now) ==
    IF KeyAction(k) = "" THEN UNCHANGED vars
    ELSE IF KeyAction(k) = "pause" THEN togglePause(now)
    ELSE IF KeyAction(k) = "restart" THEN restartGame(now)
    ELSE setDirection(KeyAction(k))

Abs(n) == IF n < 0 THEN -n ELSE n

\* the touchend listener, for a touch that moved by (dx, dy) in elapsed ms
touchend(dx, dy, elapsed) ==
    IF elapsed < SwipeMaxMs /\ Max(Abs(dx), Abs(dy)) > SwipeMinDist
    THEN setDirection(IF Abs(dx) > Abs(dy)
                      THEN (IF dx > 0 THEN "right" ELSE "left")
                      ELSE (IF dy > 0 THEN "down" ELSE "up"))
    ELSE UNCHANGED vars

\* variant: the paused test is missing
gameLoopNoPauseCheck(time) ==
    IF ~running
    THEN /\ pending' = pending - 1
         /\ UNCHANGED <<game, accumulator, lastTime, frameTime>>
    ELSE /\ lastTime' = Rebase(time, time)
         /\ frameTime' = RebaseFrame(time, time)
         /\ \E r \in Drain(State, accumulator + (time - lastTime)) :
              /\ snake' = r.g.snake
              /\ dir' = r.g.dir
              /\ nextDir' = r.g.nextDir
              /\ food' = r.g.food
              /\ score' = r.g.score
              /\ running' = r.g.running
              /\ paused' = r.g.paused
              /\ gameOver' = r.g.gameOver
              /\ hung' = r.g.hung
              /\ accumulator' = r.acc
              /\ UNCHANGED placing
              /\ IF r.g.running /\ ~r.g.hung
                 THEN RequestFrame(pending - 1)
                 ELSE pending' = pending - 1

\* gameLoop(time): one animation-frame callback
gameLoop(time) ==
    IF ~running
    THEN /\ pending' = pending - 1
         /\ UNCHANGED <<game, accumulator, lastTime, frameTime>>
    ELSE IF paused
    THEN /\ pending' = pending - 1
         /\ UNCHANGED <<game, accumulator, lastTime, frameTime>>
    ELSE /\ lastTime' = Rebase(time, time)
         /\ frameTime' = RebaseFrame(time, time)
         /\ \E r \in Drain(State, accumulator + (time - lastTime)) :
              /\ snake' = r.g.snake
              /\ dir' = r.g.dir
              /\ nextDir' = r.g.nextDir
              /\ food' = r.g.food
              /\ score' = r.g.score
              /\ running' = r.g.running
              /\ paused' = r.g.paused
              /\ gameOver' = r.g.gameOver
              /\ hung' = r.g.hung
              /\ accumulator' = r.acc
              /\ UNCHANGED placing
              /\ IF r.g.running /\ ~r.g.hung
                 THEN RequestFrame(pending - 1)
                 ELSE pending' = pending - 1

\* gameLoop(time) up to the placeFood call of its first update call, for a
\* call that gets there: that update call has not returned, so the
\* accumulator is not yet decremented and no frame is requested yet
gameLoopToPlaceFood(time) ==
    /\ running /\ ~paused
    /\ accumulator + (time - lastTime) >= step
    /\ Eats(State)
    /\ lastTime' = Rebase(time, time)
    /\ frameTime' = RebaseFrame(time, time)
    /\ accumulator' = accumulator + (time - lastTime)
    /\ snake' = AtPlaceFood(State).snake
    /\ dir' = AtPlaceFood(State).dir
    /\ score' = AtPlaceFood(State).score
    /\ placing' = TRUE
    /\ pending' = pending - 1
    /\ UNCHANGED <<nextDir, food, running, paused, gameOver, hung>>

\* one pass of placeFood's do-while loop, drawing cell c = (fx, fy): on an
\* occupied cell the loop goes round again; on a free one placeFood sets food
\* and returns, update returns, and gameLoop goes on from
\* `accumulator -= step` to its end
placeFoodDraw(c) ==
    /\ placing
    /\ IF Occupied(snake, c) THEN UNCHANGED vars
       ELSE /\ placing' = FALSE
            /\ \E r \in Drain([State EXCEPT !.food = c], accumulator - step) :
                 /\ snake' = r.g.snake
                 /\ dir' = r.g.dir
                 /\ nextDir' = r.g.nextDir
                 /\ food' = r.g.food
                 /\ score' = r.g.score
                 /\ running' = r.g.running
                 /\ paused' = r.g.paused
                 /\ gameOver' = r.g.gameOver
                 /\ hung' = r.g.hung
                 /\ accumulator' = r.acc
                 /\ IF r.g.running /\ ~r.g.hung
                    THEN RequestFrame(pending)
                    ELSE pending' = pending
            /\ UNCHANGED <<lastTime, frameTime>>

----------------------------------------------------------------------------
(* The environment: the browser's clock, frames and input events *)

Keys == {"ArrowUp", "s", "A", "ArrowRight", " ", "Enter", "x"}
\* touches: <<dx, dy, milliseconds between touchstart and touchend>>
Swipes == {<<-40, 10, 500>>, <<10, 40, 500>>, <<20, 0, 500>>, <<40, 0, 1500>>}

\* the timestamps the browser can hand to a frame callback: not earlier than
\* the latest frame's; one value is enough for a callback that ignores it
FrameTimes ==
    IF running /\ ~paused THEN frameTime..MaxElapsed ELSE {frameTime}

\* performance.now() at a key press: not earlier than the reference instant;
\* only its distance to the latest frame is kept, and that up to MaxLag, so
\* later readings add nothing; one value is enough for a key that reads no clock
KeyTimes(k) == IF KeyAction(k) \in {"pause", "restart"} THEN 0..MaxLag ELSE {0}

\* the mode of the game
Mode == IF gameOver THEN "gameOver" ELSE IF paused THEN "paused" ELSE "running"

\* the history variable after a handler call; restart tells whether the
\* call was a restartGame call
Noted(restart) ==
    restartedFrom' = IF restart THEN Mode
                     ELSE IF UNCHANGED prog THEN restartedFrom
                     ELSE "none"

\* the browser runs one outstanding animation-frame callback
Frame ==
    /\ ~hung
    /\ pending > 0
    /\ \E time \in FrameTimes :
         /\ gameLoop(time)
         /\ Len(snake') <= MaxLen
         /\ accumulator' >= -MaxDebt
    /\ Noted(FALSE)

KeyDown ==
    /\ ~hung
    /\ \E k \in Keys : \E now \in KeyTimes(k) :
         handleKeyDown(k, now) /\ Noted(KeyAction(k) = "restart")

TouchEnd ==
    /\ ~hung
    /\ \E t \in Swipes : touchend(t[1], t[2], t[3])
    /\ Noted(FALSE)

\* the state once the script has run: its last statement calls initGame()
Init ==
    /\ snake = InitSnake
    /\ dir = Cell(1, 0)
    /\ nextDir = Cell(1, 0)
    /\ food \in FreeCells(InitSnake)
    /\ score = 0
    /\ running = TRUE
    /\ paused = FALSE
    /\ gameOver = FALSE
    /\ hung = FALSE
    /\ placing = FALSE
    /\ restartedFrom = "none"
    /\ accumulator = 0
    /\ lastTime = 0
    /\ frameTime \in (-MaxLag)..0
    /\ pending = 1

Next == Frame \/ KeyDown \/ TouchEnd

Spec == Init /\ [][Next]_vars

\* setDirection is a global function: besides the four strings the two
\* listeners pass, it can be called with any string.  SpecCalls is the game
\* steered by such calls alone.
Strings == DOMAIN map \cup {"pause", "constructor"}

Call ==
    /\ ~hung
    /\ \E action \in Strings : setDirection(action)
    /\ Noted(FALSE)

NextCalls == Frame \/ Call

SpecCalls == Init /\ [][NextCalls]_vars

\* SpecFood follows placeFood's loop pass by pass, in a game that is only
\* steered and whose frames come one step apart (one update call each), with
\* no bound on the snake's length: the snake can fill the grid.  Math.random
\* is fair: a cell that stays free is drawn sooner or later.
Steer ==
    /\ ~placing /\ ~hung
    /\ \E action \in DOMAIN map : setDirection(action)
    /\ Noted(FALSE)

\* a frame whose update call does not eat
Move ==
    /\ ~placing /\ ~hung
    /\ pending > 0
    /\ ~Eats(State)
    /\ gameLoop(step)
    /\ Noted(FALSE)

\* a frame whose update call eats, up to its placeFood call
Eat ==
    /\ ~placing /\ ~hung
    /\ pending > 0
    /\ gameLoopToPlaceFood(step)
    /\ Noted(FALSE)

Draw(c) == placeFoodDraw(c) /\ Noted(FALSE)

Sample == \E c \in Grid : Draw(c)

NextFood == Steer \/ Move \/ Eat \/ Sample

SpecFood ==
    Init /\ [][NextFood]_vars /\ \A c \in Grid : WF_vars(Draw(c))

----------------------------------------------------------------------------
(* Properties *)

\* the cell one step from c in direction d, for a numeric cell and direction
Step(c, d) == Cell(c.x + d.x, c.y + d.y)

\* the exact inverse of direction d
Inverse(d) == Cell(-d.x, -d.y)

SnakeHead == snake[1]
SnakeTail == snake[Len(snake)]

\* update would act: the game is running, not paused, not over
Live == running /\ ~paused /\ ~gameOver

Dirs == {map[a] : a \in DOMAIN map}

\* the head the next update call computes
NextHead == Step(SnakeHead, nextDir)

\* C1: while gameOver is false, any two distinct indices of the snake hold
\* distinct cells
NoSelfOverlap ==
    ~gameOver =>
        \A i, j \in 1..Len(snake) : i # j => snake[i] # snake[j]

\* C1 witness: a grown snake that has curled up, its head beside a segment
\* of its body that is neither its neck nor its tail
CurledUp ==
    /\ ~gameOver
    /\ \E i \in 3..(Len(snake) - 1) :
         \E d \in {map[a] : a \in DOMAIN map} : Step(SnakeHead, d) = snake[i]

\* C2: while gameOver is false, the head lies inside the grid
HeadInGrid ==
    ~gameOver => SnakeHead.x \in 0..(COLS - 1) /\ SnakeHead.y \in 0..(ROWS - 1)

\* C2 witness: the snake has moved up to a wall and the game goes on
HeadAtWall ==
    /\ ~gameOver
    /\ SnakeHead # InitSnake[1]
    /\ SnakeHead.x \in {0, COLS - 1}
    /\ SnakeHead.y \in {0, ROWS - 1}

\* C3: food is a cell of the grid that no snake segment occupies (in every
\* state in which placeFood has returned)
FoodOffSnake ==
    ~hung =>
        /\ food.x \in 0..(COLS - 1) /\ food.y \in 0..(ROWS - 1)
        /\ \A i \in 1..Len(snake) : snake[i] # food

\* C3 witness: food was eaten and placed again, right in front of the snake
FoodReplaced ==
    /\ score > 0
    /\ ~gameOver
    /\ \E d \in {map[a] : a \in DOMAIN map} : Step(SnakeHead, d) = food

\* C4: the queued direction is never the inverse of the current one, however
\* many requests arrive, so the head never moves onto the neck; a tick commits
\* the queued direction; the queued direction changes only by being
\* overwritten with a direction that is not the inverse of the current one
\* (the new game's direction on a restart)
NoReversal ==
    /\ [](nextDir # Inverse(dir))
    /\ [](~gameOver => NextHead # snake[2])
    /\ [](Live => \A g \in update(State) :
                      g.dir = nextDir /\ g.dir # Inverse(dir))
    /\ [][nextDir' # nextDir =>
            nextDir' \in Dirs /\ (dir' = dir => nextDir' # Inverse(dir))]_vars

\* C4 witness: a tick has committed a turn and another turn is queued
TurnQueued ==
    /\ ~gameOver
    /\ snake[2] # InitSnake[1]
    /\ dir # Cell(1, 0)
    /\ nextDir # dir

\* C5: a setDirection call that asks for the inverse of the current direction,
\* or passes a string that is none of up, down, left, right, changes nothing
DirectionLaw ==
    [][\A a \in Strings :
         ( /\ setDirection(a)
           /\ \/ a \notin DOMAIN map
              \/ (IsVec(dir) /\ map[a] = Inverse(dir)) )
         => UNCHANGED vars]_vars

\* C6: a tick whose new head is the food cell prepends the head, removes
\* nothing, adds 1 to the score and puts food on a free cell, any free cell
GrowthLaw ==
    ( /\ Live
      /\ NextHead \in Grid
      /\ NextHead \notin Cells(snake)
      /\ NextHead = food
      /\ Grid \ (Cells(snake) \cup {NextHead}) # {} )
    => /\ \A g \in update(State) :
            /\ g.snake = <<NextHead>> \o snake
            /\ Len(g.snake) = Len(snake) + 1
            /\ g.score = score + 1
            /\ g.running /\ ~g.gameOver /\ ~g.hung
       /\ {g.food : g \in update(State)} =
              Grid \ (Cells(snake) \cup {NextHead})

\* C6 witness: the snake has eaten twice
AteTwice == ~gameOver /\ score = 2 /\ Len(snake) = 5

\* C7: a tick without collision whose new head is not the food cell prepends
\* the head and removes the last segment; length, score and food stay
NonGrowthLaw ==
    ( /\ Live
      /\ NextHead \in Grid
      /\ NextHead \notin Cells(snake)
      /\ NextHead # food )
    => \A g \in update(State) :
            /\ g.snake = <<NextHead>> \o SubSeq(snake, 1, Len(snake) - 1)
            /\ Len(g.snake) = Len(snake)
            /\ g.score = score
            /\ g.food = food
            /\ g.running /\ ~g.gameOver

\* C7 witness: the initial snake after one tick to the right without food
MovedOnce ==
    /\ score = 0
    /\ snake = <<Step(InitSnake[1], Cell(1, 0)), InitSnake[1], InitSnake[2]>>

\* C8: a tick whose new head is outside the grid ends the game and leaves
\* snake, score and food as they were
WallLaw ==
    (Live /\ NextHead \notin Grid)
    => \A g \in update(State) :
            /\ g.gameOver /\ ~g.running
            /\ g.snake = snake
            /\ g.score = score
            /\ g.food = food

\* C8 witness: the game is over with the head at a wall, heading out
HitWall == gameOver /\ ~running /\ Step(SnakeHead, dir) \notin Grid

\* C9: a tick whose new head is the cell of any segment, the last one
\* included, ends the game and leaves snake, score and food as they were
SelfLaw ==
    (Live /\ NextHead \in Grid /\ NextHead \in Cells(snake))
    => \A g \in update(State) :
            /\ g.gameOver /\ ~g.running
            /\ g.snake = snake
            /\ g.score = score
            /\ g.food = food

\* C9 witness: the game is over with the head heading into the last segment
BitTail == gameOver /\ ~running /\ Step(SnakeHead, dir) = SnakeTail

\* C10: from a state with gameOver, every step that is not a restartGame
\* call keeps gameOver and leaves snake, score, food, running and paused
GameOverTerminal ==
    [][gameOver =>
         \/ gameOver' /\ UNCHANGED <<snake, score, food, running, paused>>
         \/ \E now \in 0..MaxLag : restartGame(now)]_vars

\* C10 witness: the game is over and a direction key was pressed since
OverAndSteered == gameOver /\ ~running /\ nextDir # dir

\* C11: right after a restartGame call, whatever the game was like before
\* (running, paused or over), the state is that of a new game: the snake is
\* three cells in row floor(ROWS/2), head at x = floor(COLS/2) - 1 and body to
\* its left, dir = nextDir = (1,0), score 0, not paused, not over, running,
\* accumulator 0, food on a grid cell off the snake
FreshOnRestart ==
    restartedFrom # "none" =>
        /\ snake = << Cell((COLS \div 2) - 1, ROWS \div 2),
                      Cell((COLS \div 2) - 2, ROWS \div 2),
                      Cell((COLS \div 2) - 3, ROWS \div 2) >>
        /\ dir = Cell(1, 0) /\ nextDir = Cell(1, 0)
        /\ score = 0
        /\ ~paused /\ ~gameOver /\ running /\ ~hung
        /\ accumulator = 0
        /\ lastTime = 0
        /\ food \in Grid /\ food \notin Cells(snake)

\* C11 witness: restartGame was called when the game was over
RestartedWhenOver == restartedFrom = "gameOver" /\ running

\* C12: while paused, an update call changes nothing; every step other than
\* a restartGame call leaves snake, dir, score, food and the accumulator
\* alone; a frame callback that runs only retires itself, scheduling nothing;
\* and a frame is scheduled only by a step that ends the pause (togglePause
\* or restartGame)
PausedFreeze ==
    /\ [](paused => update(State) = {State})
    /\ [][paused /\ restartedFrom' = "none" =>
            UNCHANGED <<snake, dir, score, food, accumulator>>]_vars
    /\ [][paused /\ pending' < pending =>
            pending' = pending - 1 /\ UNCHANGED <<game, accumulator, lastTime>>]_vars
    /\ [][paused /\ pending' > pending => ~paused']_vars

\* C12 witness: a game paused in mid-course whose frame callback has run and
\* has scheduled no other
PausedIdle == paused /\ pending = 0 /\ score > 0 /\ accumulator > 0

\* a press of the space bar: one togglePause call
PauseKey == \E now \in 0..MaxLag : handleKeyDown(" ", now)

\* C13: while the game is not over, no togglePause call leaves paused as it
\* is, and a step that changes paused without restarting the game leaves the
\* game and the accumulator alone, so two calls in succession restore
\* paused; the resuming call makes its own instant the clock reference
\* (lastTime is the reference instant, 0) and schedules a frame; and a frame
\* adds to the accumulator exactly the time between the reference instant
\* and its timestamp, so after a resume none of the time before the resume
\* is added and no tick is replayed
PauseTwice ==
    /\ [](~gameOver => ~ENABLED (PauseKey /\ paused' = paused))
    /\ [][paused' # paused /\ restartedFrom' = "none" =>
            /\ ~gameOver
            /\ UNCHANGED <<snake, dir, nextDir, food, score, running,
                           gameOver, accumulator>>
            /\ IF paused THEN lastTime' = 0 /\ pending' = pending + 1
                         ELSE UNCHANGED <<lastTime, pending>>]_vars
    /\ [](Live => \A time \in FrameTimes :
                     \A r \in Drain(State, accumulator + (time - lastTime)) :
                         r.acc + r.n * step = accumulator + time)

\* C13 witness: a game in mid-course was paused and resumed while a frame
\* callback was outstanding, the resume coming later than the latest frame
ResumedMidGame ==
    /\ ~paused /\ ~gameOver
    /\ score > 0
    /\ accumulator > 0
    /\ frameTime < 0
    /\ pending = 2

\* C14: between gameLoop calls the accumulator is in [0, step), and it is 0
\* right after restartGame
AccumulatorInRange ==
    /\ 0 <= accumulator /\ accumulator < step
    /\ restartedFrom # "none" => accumulator = 0

\* C15: a frame of a running, unpaused game with elapsed time dt >= 0 calls
\* update floor((accumulator + dt) / step) times and leaves
\* accumulator + dt less that many steps
FrameLaw ==
    Live =>
        \A dt \in 0..MaxElapsed :
            \A r \in Drain(State, accumulator + dt) :
                /\ r.n = (accumulator + dt) \div step
                /\ r.acc = (accumulator + dt) - r.n * step

\* C16: a frame whose timestamp is earlier than lastTime does not decrease
\* the accumulator and does not leave it negative
NegativeDtClamped ==
    [][\A time \in FrameTimes :
         (running /\ ~paused /\ time < lastTime /\ gameLoop(time))
         => accumulator' >= accumulator /\ accumulator' >= 0]_vars

\* C17: exactly one of the three modes is active: running and not over,
\* paused (and not over), or over (and not running); paused and gameOver
\* are never both true, and running is true exactly when gameOver is false
ExactlyOneMode ==
    LET active  == running /\ ~paused /\ ~gameOver
        suspended == paused /\ ~gameOver
        over    == gameOver /\ ~running
    IN  /\ active \/ suspended \/ over
        /\ ~(active /\ suspended) /\ ~(active /\ over) /\ ~(suspended /\ over)
        /\ ~(paused /\ gameOver)
        /\ running <=> ~gameOver

\* C17 witness: the game ended in one frame callback while a second one,
\* left by a pause and resume, is still outstanding
OverWithFrameOut == gameOver /\ ~running /\ ~paused /\ pending = 1

\* C19: at most one gameLoop callback is outstanding
OneFramePending == pending <= 1

\* C20: score is the snake's length less the three segments of initGame,
\* hence not negative, and an update call either leaves both or adds 1 to
\* both
ScoreIsGrowth ==
    /\ score = Len(snake) - 3
    /\ score >= 0
    /\ \A g \in update(State) :
          \/ g.score = score /\ Len(g.snake) = Len(snake)
          \/ g.score = score + 1 /\ Len(g.snake) = Len(snake) + 1

\* C20 witness: a game that ended after the snake had eaten
ScoredAndOver == gameOver /\ score > 0

\* C18: a placeFood call returns, sooner or later, when a cell is free of the
\* snake, and then sets food to a free cell; it never returns when the snake
\* covers the grid: the update call that ate the last free cell never
\* completes, the frame never ends and no other frame is scheduled; update
\* (with placeFood as one step) agrees on both cases
PlaceFoodLaw ==
    /\ (placing /\ Grid \ Cells(snake) # {}) ~> ~placing
    /\ [][placing /\ ~placing' =>
            food' \in Grid \ Cells(snake) /\ snake' = snake]_vars
    /\ [][placing /\ Cells(snake) = Grid => UNCHANGED vars]_vars
    /\ [](placing /\ Cells(snake) = Grid => pending = 0)
    /\ [](Eats(State) =>
            IF Grid \ (Cells(snake) \cup {NextHead}) = {}
            THEN \A g \in update(State) : g.hung
            ELSE update(State) =
                   {[AtPlaceFood(State) EXCEPT !.food = f] :
                       f \in Grid \ (Cells(snake) \cup {NextHead})})

\* C18 witness: the snake has eaten the last free cell and covers the grid,
\* inside a placeFood call
GridFull == placing /\ Cells(snake) = Grid /\ Len(snake) = COLS * ROWS

====
